---- MODULE Spec2Model ----
(***************************************************************************)
(* Model of resume-analyzer: the result cache (cache.py), the request      *)
(* handlers and the identifier->result store (app.py) and the match scorer *)
(* (matcher.py).                                                           *)
(*                                                                         *)
(* Python objects live in a heap (address -> dict) so that "stored by      *)
(* reference" (in-process cache, resume_storage) and "stored as JSON text" *)
(* (Redis) are different things.  Both cache backends are driven by the    *)
(* same requests side by side: sys["memory"] is a process started without  *)
(* REDIS_HOST, sys["redis"] one started with it.                           *)
(***************************************************************************)
EXTENDS Integers, Sequences, FiniteSets, TLC

VARIABLES
    sys,       \* backend -> process state (cache fields, redis contents, heap, resume_storage)
    now,       \* time.time(), in seconds
    resp,      \* backend -> the last call: what it was, when, and what it returned
    lastSet,   \* history: key -> the most recent set on that key
    margs,     \* the arguments of a call into the matcher
    mret,      \* what that call returned
    pyhash,    \* hash() of this run of the interpreter, on the values the handlers hash
    uuids,     \* how many identifiers uuid.uuid4() has produced
    issued,    \* history: backend -> identifier -> the profile its upload returned
    computed,  \* history: backend -> analyze request -> the result computed for it
    analyses,  \* how many analyze requests have been served
    threads,   \* thread -> the cache call it is in: position, arguments, locals, return value
    calls,     \* how many cache calls the threads have started
    wrote      \* history: the values that set calls were given

vars == <<sys, now, resp, lastSet, margs, mret, pyhash, uuids, issued, computed, analyses,
          threads, calls, wrote>>

concOnly == <<threads, calls, wrote>>
cacheOnly == <<margs, mret, pyhash, uuids, issued, computed, analyses, concOnly>>
matchOnly == <<sys, now, resp, lastSet, pyhash, uuids, issued, computed, analyses, concOnly>>
appOnly == <<lastSet, margs, mret, concOnly>>

(***************************************************************************)
(* Bounds of the model                                                     *)
(***************************************************************************)
TickStep == 1800
MaxTicks == 2
MaxTime == MaxTicks * TickStep

Backends == {"memory", "redis"}

\* Python's None where a dict or a JSON text is expected, and where a reference is
None == [none |-> TRUE]
NoRef == 0

(***************************************************************************)
(* Python dicts: functions with a finite domain                            *)
(***************************************************************************)
EmptyDict == [x \in {} |-> 0]

DictSet(d, k, v) == [x \in (DOMAIN d) \cup {k} |-> IF x = k THEN v ELSE d[x]]

DictDel(d, k) == [x \in (DOMAIN d) \ {k} |-> d[x]]

\* dict.get(k, default)
DictGet(d, k, default) == IF k \in DOMAIN d THEN d[k] ELSE default

(***************************************************************************)
(* The heap: a new dict gets the smallest free address                     *)
(***************************************************************************)
Alloc(heap) == CHOOSE a \in 1..(Cardinality(DOMAIN heap) + 1) : a \notin DOMAIN heap

\* Objects no longer referenced from resume_storage or memory_cache are
\* reclaimed (CPython reference counting).
Reachable(s) ==
    {s.resume_storage[i] : i \in DOMAIN s.resume_storage}
        \cup {s.memory_cache[k] : k \in DOMAIN s.memory_cache}

Collect(s) == [s EXCEPT !.heap = [a \in (DOMAIN s.heap) \cap Reachable(s) |-> s.heap[a]]]

(***************************************************************************)
(* json.dumps / json.loads on the result dicts the handlers cache.  Every  *)
(* value in them is JSON-native (str, int, float, bool, list, dict with    *)
(* str keys), so the text is the list of the dict's items and parsing it   *)
(* gives a NEW dict with equal items.                                      *)
(***************************************************************************)
RECURSIVE Items(_, _)
Items(d, keys) ==
    IF keys = {} THEN << >>
    ELSE LET k == CHOOSE x \in keys : TRUE
         IN <<(<<k, d[k]>>)>> \o Items(d, keys \ {k})

Dumps(d) == [text |-> Items(d, DOMAIN d)]

Loads(j) ==
    LET items == j.text
        keys == {items[i][1] : i \in 1..Len(items)}
    IN [k \in keys |-> items[CHOOSE i \in 1..Len(items) : items[i][1] = k][2]]

(***************************************************************************)
(* Python str: a sequence of one-character strings                         *)
(***************************************************************************)
UpperCase == <<"A", "B", "C", "D", "E", "F", "G", "H", "I", "J", "K", "L", "M",
               "N", "O", "P", "Q", "R", "S", "T", "U", "V", "W", "X", "Y", "Z">>
LowerCase == <<"a", "b", "c", "d", "e", "f", "g", "h", "i", "j", "k", "l", "m",
               "n", "o", "p", "q", "r", "s", "t", "u", "v", "w", "x", "y", "z">>
DigitChars == <<"0", "1", "2", "3", "4", "5", "6", "7", "8", "9">>

IsUpper(c) == \E i \in 1..Len(UpperCase) : UpperCase[i] = c
IsLower(c) == \E i \in 1..Len(LowerCase) : LowerCase[i] = c
IsDigit(c) == \E i \in 1..Len(DigitChars) : DigitChars[i] = c
\* \s and \w of the re module, on the characters the model's texts use
IsSpace(c) == c = " "
IsWordChar(c) == IsUpper(c) \/ IsLower(c) \/ IsDigit(c) \/ c = "_"

LowerChar(c) ==
    IF IsUpper(c) THEN LowerCase[CHOOSE i \in 1..Len(UpperCase) : UpperCase[i] = c] ELSE c

\* str.lower()
Lower(s) == [i \in 1..Len(s) |-> LowerChar(s[i])]

\* pat in text
Contains(text, pat) ==
    \E i \in 0..(Len(text) - Len(pat)) : SubSeq(text, i + 1, i + Len(pat)) = pat

\* s[:n]
Take(s, n) == SubSeq(s, 1, IF Len(s) < n THEN Len(s) ELSE n)

\* list(set(xs)): the elements of a set in the order the process iterates it
RECURSIVE SetToList(_)
SetToList(S) ==
    IF S = {} THEN << >>
    ELSE LET x == CHOOSE y \in S : TRUE IN <<x>> \o SetToList(S \ {x})

SeqToSet(xs) == {xs[i] : i \in 1..Len(xs)}

\* round(num/den, 0) to the nearest integer, ties to even (Python's round)
RoundHalfEven(num, den) ==
    LET q == num \div den
        r == num % den
    IN IF 2 * r < den THEN q
       ELSE IF 2 * r > den THEN q + 1
       ELSE IF q % 2 = 0 THEN q ELSE q + 1

\* round towards zero instead
RoundDown(num, den) == num \div den

\* round(x, 1) of a float x that was computed as a sum of rounded products: away
\* from a tie the float error cannot change the result; at a tie of the exact
\* value it decides the direction, so either neighbour can come out.
RoundTieEither(num, den, up) ==
    LET q == num \div den
        r == num % den
    IN IF 2 * r < den THEN q
       ELSE IF 2 * r > den THEN q + 1
       ELSE IF up THEN q + 1 ELSE q

(***************************************************************************)
(* CacheManager (cache.py)                                                 *)
(***************************************************************************)
\* CacheManager.__init__ for one backend; resume_storage = {} (app.py:29)
InitSys(b) ==
    [redis_client   |-> (b = "redis"),
     memory_cache   |-> EmptyDict,
     cache_expiry   |-> EmptyDict,
     redis          |-> EmptyDict,
     heap           |-> EmptyDict,
     resume_storage |-> EmptyDict]

\* redis_client.get(key): the text stored under key, None once its TTL ran out
RedisGet(s, key, t) ==
    IF key \in DOMAIN s.redis /\ s.redis[key].expire_at > t
    THEN s.redis[key].data
    ELSE None

\* Redis drops a key whose TTL ran out
RedisExpire(s, t) ==
    [s EXCEPT !.redis = [k \in {x \in DOMAIN s.redis : s.redis[x].expire_at > t}
                            |-> s.redis[k]]]

\* cache.py:52-62 with the expired entry left in place
MemoryGetNoEvict(s, key, t) ==
    IF key \in DOMAIN s.memory_cache
    THEN LET expiry == DictGet(s.cache_expiry, key, 0)
         IN IF expiry > t
            THEN [ret |-> s.memory_cache[key], sys |-> s]
            ELSE [ret |-> NoRef, sys |-> s]
    ELSE [ret |-> NoRef, sys |-> s]

\* cache.py:52-62, the in-process branch of get
MemoryGet(s, key, t) ==
    IF key \in DOMAIN s.memory_cache
    THEN LET expiry == DictGet(s.cache_expiry, key, 0)
         IN IF expiry > t
            THEN [ret |-> s.memory_cache[key], sys |-> s]
            ELSE [ret |-> NoRef,
                  sys |-> [s EXCEPT !.memory_cache = DictDel(@, key),
                                    !.cache_expiry = DictDel(@, key)]]
    ELSE [ret |-> NoRef, sys |-> s]

\* CacheManager.get: ret is the address of the dict handed to the caller, or None
CacheGet(s, key, t) ==
    LET cached == IF s.redis_client THEN RedisGet(s, key, t) ELSE None
    IN IF cached # None
       THEN LET a == Alloc(s.heap)
            IN [ret |-> a,
                sys |-> [RedisExpire(s, t) EXCEPT !.heap = DictSet(@, a, Loads(cached))]]
       ELSE MemoryGet(RedisExpire(s, t), key, t)

\* CacheManager.set with the expiry computed without the ttl
CacheSetNoTtl(s, key, ref, ttl, t) ==
    IF s.redis_client
    THEN [ret |-> TRUE,
          sys |-> [s EXCEPT !.redis = DictSet(@, key,
                       [data |-> Dumps(s.heap[ref]), expire_at |-> t])]]
    ELSE [ret |-> TRUE,
          sys |-> [s EXCEPT !.memory_cache = DictSet(@, key, ref),
                            !.cache_expiry = DictSet(@, key, t)]]

\* CacheManager.set: ref is the address of the value
CacheSet(s, key, ref, ttl, t) ==
    IF s.redis_client
    THEN [ret |-> TRUE,
          sys |-> [s EXCEPT !.redis = DictSet(@, key,
                       [data |-> Dumps(s.heap[ref]), expire_at |-> t + ttl])]]
    ELSE [ret |-> TRUE,
          sys |-> [s EXCEPT !.memory_cache = DictSet(@, key, ref),
                            !.cache_expiry = DictSet(@, key, t + ttl)]]

\* CacheManager.delete
CacheDelete(s, key, t) ==
    IF s.redis_client
    THEN [ret |-> (RedisGet(s, key, t) # None),
          sys |-> [RedisExpire(s, t) EXCEPT !.redis = DictDel(@, key)]]
    ELSE IF key \in DOMAIN s.memory_cache
         THEN [ret |-> TRUE,
               sys |-> [s EXCEPT !.memory_cache = DictDel(@, key),
                                 !.cache_expiry = DictDel(@, key)]]
         ELSE [ret |-> FALSE, sys |-> s]

\* CacheManager.clear
CacheClear(s) ==
    IF s.redis_client
    THEN [ret |-> TRUE, sys |-> [s EXCEPT !.redis = EmptyDict]]
    ELSE [ret |-> TRUE, sys |-> [s EXCEPT !.memory_cache = EmptyDict,
                                          !.cache_expiry = EmptyDict]]

\* A caller's freshly built dict
NewObj(s, content) ==
    LET a == Alloc(s.heap)
    IN [ref |-> a, sys |-> [s EXCEPT !.heap = DictSet(@, a, content)]]

\* What the caller sees of a returned reference
Deref(s, ref) == IF ref = NoRef THEN None ELSE s.heap[ref]

(***************************************************************************)
(* The cache on its own: a caller issuing set/get/delete/clear as time     *)
(* passes.                                                                 *)
(***************************************************************************)
CacheKeys == {"k1", "k2"}
CacheVals == {[status |-> "v1", from_cache |-> FALSE],
              [status |-> "v2", from_cache |-> FALSE]}
CacheTtls == {1, TickStep, 2 * TickStep}

NeverSet == [value |-> None, expiry |-> 0, live |-> FALSE]

InitCache ==
    /\ sys = [b \in Backends |-> InitSys(b)]
    /\ now = 0
    /\ resp = [b \in Backends |-> [op |-> "init", key |-> "", at |-> 0, ret |-> None]]
    /\ lastSet = [k \in CacheKeys |-> NeverSet]
    /\ margs = None
    /\ mret = None
    /\ pyhash = EmptyDict
    /\ uuids = 0
    /\ issued = EmptyDict
    /\ computed = EmptyDict
    /\ analyses = 0
    /\ threads = EmptyDict
    /\ calls = 0
    /\ wrote = {}

CallSet(k, v, ttl) ==
    LET out == [b \in Backends |->
                   LET o == NewObj(sys[b], v)
                   IN CacheSet(o.sys, k, o.ref, ttl, now)]
    IN /\ sys' = [b \in Backends |-> Collect(out[b].sys)]
       /\ resp' = [b \in Backends |-> [op |-> "set", key |-> k, at |-> now, ret |-> out[b].ret]]
       /\ lastSet' = [lastSet EXCEPT ![k] = [value |-> v, expiry |-> now + ttl, live |-> TRUE]]
       /\ UNCHANGED <<now, cacheOnly>>

CallGet(k) ==
    LET out == [b \in Backends |-> CacheGet(sys[b], k, now)]
    IN /\ sys' = [b \in Backends |-> Collect(out[b].sys)]
       /\ resp' = [b \in Backends |->
                      [op |-> "get", key |-> k, at |-> now, ret |-> Deref(out[b].sys, out[b].ret)]]
       /\ UNCHANGED <<now, lastSet, cacheOnly>>

CallDelete(k) ==
    LET out == [b \in Backends |-> CacheDelete(sys[b], k, now)]
    IN /\ sys' = [b \in Backends |-> Collect(out[b].sys)]
       /\ resp' = [b \in Backends |-> [op |-> "delete", key |-> k, at |-> now, ret |-> out[b].ret]]
       /\ lastSet' = [lastSet EXCEPT ![k].live = FALSE]
       /\ UNCHANGED <<now, cacheOnly>>

CallClear ==
    LET out == [b \in Backends |-> CacheClear(sys[b])]
    IN /\ sys' = [b \in Backends |-> Collect(out[b].sys)]
       /\ resp' = [b \in Backends |-> [op |-> "clear", key |-> "", at |-> now, ret |-> out[b].ret]]
       /\ lastSet' = [k \in CacheKeys |-> [lastSet[k] EXCEPT !.live = FALSE]]
       /\ UNCHANGED <<now, cacheOnly>>

\* Wall-clock time passes between calls
Tick ==
    /\ now + TickStep <= MaxTime
    /\ now' = now + TickStep
    /\ UNCHANGED <<sys, resp, lastSet, cacheOnly>>

NextCache ==
    \/ \E k \in CacheKeys, v \in CacheVals, ttl \in CacheTtls : CallSet(k, v, ttl)
    \/ \E k \in CacheKeys : CallGet(k)
    \/ \E k \in CacheKeys : CallDelete(k)
    \/ CallClear
    \/ Tick

SpecCache == InitCache /\ [][NextCache]_vars

\* C1: in the in-process cache, a get(k) issued once the expiry time of the
\* most recent set(k) has passed (or when k was never set) returns a miss and
\* leaves k in neither the value map nor the expiry map; this covers every
\* later get(k) as well, as long as no set(k) intervenes.
ExpiredReadIsMissAndEvicts ==
    \A k \in CacheKeys :
        (resp["memory"].op = "get" /\ resp["memory"].key = k /\ resp["memory"].at >= lastSet[k].expiry)
            => /\ resp["memory"].ret = None
               /\ k \notin DOMAIN sys["memory"].memory_cache
               /\ k \notin DOMAIN sys["memory"].cache_expiry

\* C1 witness: a get(k) after the expiry of a set(k) that nothing deleted
ExpiredReadHappens ==
    \E k \in CacheKeys :
        /\ resp["memory"].op = "get" /\ resp["memory"].key = k
        /\ lastSet[k].live /\ resp["memory"].at >= lastSet[k].expiry
        /\ resp["memory"].ret = None

Visible(s, k, t) ==
    LET Seen(o) == Deref(o.sys, o.ret)
    IN Seen(CacheGet(s, k, t))

\* k has an entry: a set(k) that no delete(k) or clear followed and whose ttl
\* has not run out
HasEntry(k) == lastSet[k].live /\ now < lastSet[k].expiry

\* the step is a call of op on k (time stands still during a call)
CallStep(op, k) ==
    /\ now' = now
    /\ resp'["memory"].op = op
    /\ resp'["memory"].key = k

\* the effects of delete and clear on later reads and on other keys
DeleteAndClearEffects ==
    /\ \A k \in CacheKeys :
           CallStep("delete", k) =>
               \A b \in Backends, k2 \in CacheKeys \ {k} :
                   Visible(sys'[b], k2, now) = Visible(sys[b], k2, now)
    /\ \A k \in CacheKeys :
           (CallStep("get", k) /\ ~lastSet[k].live) => \A b \in Backends : resp'[b].ret = None
    /\ CallStep("clear", "") => \A b \in Backends : resp'[b].ret = TRUE

\* C17 as claimed: delete(k) returns true exactly when k had an entry; after
\* delete(k) a get(k) with no set(k) in between is a miss and the entries of the
\* other keys are unchanged; after clear every get is a miss until the next set.
DeleteReturnsWhetherEntryExisted ==
    [][/\ \A k \in CacheKeys :
              CallStep("delete", k) => \A b \in Backends : resp'[b].ret = HasEntry(k)
       /\ DeleteAndClearEffects]_vars

\* C17, the part that holds: delete(k) returns whether the backend still held k
\* (the in-process maps keep an expired entry until a get evicts it), and the
\* effects of delete and clear on later reads are as claimed.
DeleteReturnsWhetherBackendHeldKey ==
    [][/\ \A k \in CacheKeys :
              CallStep("delete", k) =>
                  /\ resp'["memory"].ret = (k \in DOMAIN sys["memory"].memory_cache)
                  /\ resp'["redis"].ret = HasEntry(k)
       /\ DeleteAndClearEffects]_vars

\* C17 witness of the failure: a delete(k) after the ttl of the last set(k) ran
\* out returns true from the in-process cache and false from the external one
ExpiredDeleteReturnsTrue ==
    \E k \in CacheKeys :
        /\ resp["memory"].op = "delete" /\ resp["memory"].key = k
        /\ lastSet[k].expiry > 0
        /\ resp["memory"].at >= lastSet[k].expiry
        /\ resp["memory"].ret = TRUE
        /\ resp["redis"].ret = FALSE

(***************************************************************************)
(* ResumeMatcher (matcher.py).  Decimal numbers are counted in tenths:     *)
(* percentage 667 is 66.7, score 67 is 6.7.                                *)
(***************************************************************************)
SkillCategories == {"programming", "web", "databases", "cloud", "ai_ml", "soft_skills", "other"}

\* matcher.py:125-130: the profile's skills, lowercased, as one set
AllResumeSkills(resume_skills) ==
    UNION {{Lower(resume_skills[c][i]) : i \in 1..Len(resume_skills[c])} : c \in DOMAIN resume_skills}

\* matcher.py:139-142: bidirectional containment with some profile skill
SkillMatches(keyword, all_resume_skills) ==
    \E skill \in all_resume_skills :
        Contains(skill, Lower(keyword)) \/ Contains(Lower(keyword), skill)

\* _calculate_skill_match with the score truncated instead of rounded
SkillMatchTruncated(resume_skills, job_keywords) ==
    LET all == AllResumeSkills(resume_skills)
        Hit(k) == SkillMatches(k, all)
        Miss(k) == ~SkillMatches(k, all)
        matched == SelectSeq(job_keywords, Hit)
        m == Len(matched)
        n == Len(job_keywords)
    IN [matched_skills |-> matched,
        missing_skills |-> SelectSeq(job_keywords, Miss),
        percentage     |-> IF n > 0 THEN RoundDown(m * 1000, n) ELSE 0,
        score          |-> IF n > 0 THEN RoundDown(m * 100, n) ELSE 0]

\* _calculate_skill_match with an empty keyword list counted as a full match
SkillMatchVacuous(resume_skills, job_keywords) ==
    LET all == AllResumeSkills(resume_skills)
        Hit(k) == SkillMatches(k, all)
        Miss(k) == ~SkillMatches(k, all)
        matched == SelectSeq(job_keywords, Hit)
        m == Len(matched)
        n == Len(job_keywords)
    IN [matched_skills |-> matched,
        missing_skills |-> SelectSeq(job_keywords, Miss),
        percentage     |-> IF n > 0 THEN RoundHalfEven(m * 1000, n) ELSE 1000,
        score          |-> IF n > 0 THEN RoundHalfEven(m * 100, n) ELSE 100]

\* ResumeMatcher._calculate_skill_match
CalculateSkillMatch(resume_skills, job_keywords) ==
    LET all == AllResumeSkills(resume_skills)
        Hit(k) == SkillMatches(k, all)
        Miss(k) == ~SkillMatches(k, all)
        matched == SelectSeq(job_keywords, Hit)
        m == Len(matched)
        n == Len(job_keywords)
    IN [matched_skills |-> matched,
        missing_skills |-> SelectSeq(job_keywords, Miss),
        percentage     |-> IF n > 0 THEN RoundHalfEven(m * 1000, n) ELSE 0,
        score          |-> IF n > 0 THEN RoundHalfEven(m * 100, n) ELSE 0]

\* matcher.py:8-15
common_skills ==
    <<<<"p", "y", "t", "h", "o", "n">>,
      <<"j", "a", "v", "a">>,
      <<"j", "a", "v", "a", "s", "c", "r", "i", "p", "t">>,
      <<"t", "y", "p", "e", "s", "c", "r", "i", "p", "t">>,
      <<"c", "+", "+">>,
      <<"c", "#">>,
      <<"g", "o">>,
      <<"r", "u", "s", "t">>,
      <<"r", "e", "a", "c", "t">>,
      <<"v", "u", "e">>,
      <<"a", "n", "g", "u", "l", "a", "r">>,
      <<"n", "o", "d", "e", ".", "j", "s">>,
      <<"d", "j", "a", "n", "g", "o">>,
      <<"f", "l", "a", "s", "k">>,
      <<"s", "p", "r", "i", "n", "g">>,
      <<"a", "w", "s">>,
      <<"a", "z", "u", "r", "e">>,
      <<"g", "c", "p">>,
      <<"d", "o", "c", "k", "e", "r">>,
      <<"k", "u", "b", "e", "r", "n", "e", "t", "e", "s">>,
      <<"j", "e", "n", "k", "i", "n", "s">>,
      <<"m", "y", "s", "q", "l">>,
      <<"p", "o", "s", "t", "g", "r", "e", "s", "q", "l">>,
      <<"m", "o", "n", "g", "o", "d", "b">>,
      <<"r", "e", "d", "i", "s">>,
      <<"o", "r", "a", "c", "l", "e">>,
      <<"m", "a", "c", "h", "i", "n", "e", " ", "l", "e", "a", "r", "n", "i", "n", "g">>,
      <<"a", "i">>,
      <<"d", "e", "e", "p", " ", "l", "e", "a", "r", "n", "i", "n", "g">>,
      <<"n", "l", "p">>,
      <<"t", "e", "n", "s", "o", "r", "f", "l", "o", "w">>,
      <<"p", "y", "t", "o", "r", "c", "h">>,
      <<"a", "g", "i", "l", "e">>,
      <<"s", "c", "r", "u", "m">>,
      <<"d", "e", "v", "o", "p", "s">>,
      <<"c", "i", "/", "c", "d">>,
      <<"g", "i", "t">>,
      <<"r", "e", "s", "t", " ", "a", "p", "i">>,
      <<"m", "i", "c", "r", "o", "s", "e", "r", "v", "i", "c", "e", "s">>>>

\* matcher.py:18-22
level_keywords ==
    [senior |-> <<<<"s", "e", "n", "i", "o", "r">>,
                 <<"l", "e", "a", "d">>,
                 <<"p", "r", "i", "n", "c", "i", "p", "a", "l">>,
                 <<"a", "r", "c", "h", "i", "t", "e", "c", "t">>,
                 <<"e", "x", "p", "e", "r", "t">>>>,
     mid    |-> <<<<"m", "i", "d", "-", "l", "e", "v", "e", "l">>,
                 <<"i", "n", "t", "e", "r", "m", "e", "d", "i", "a", "t", "e">>,
                 <<"e", "x", "p", "e", "r", "i", "e", "n", "c", "e", "d">>>>,
     junior |-> <<<<"j", "u", "n", "i", "o", "r">>,
                 <<"e", "n", "t", "r", "y", "-", "l", "e", "v", "e", "l">>,
                 <<"a", "s", "s", "o", "c", "i", "a", "t", "e">>,
                 <<"g", "r", "a", "d", "u", "a", "t", "e">>>>]

(***************************************************************************)
(* The regular expressions of matcher.py.  A matcher takes a text and a    *)
(* start index and returns the index just past the match, 0 for no match.  *)
(***************************************************************************)
CharAt(t, i) == IF i >= 1 /\ i <= Len(t) THEN t[i] ELSE ""

\* a literal
MLit(t, i, pat) ==
    IF i # 0 /\ i + Len(pat) - 1 <= Len(t) /\ SubSeq(t, i, i + Len(pat) - 1) = pat
    THEN i + Len(pat) ELSE 0

\* c? for a single character c
MOpt(t, i, c) == IF i # 0 /\ CharAt(t, i) = c THEN i + 1 ELSE i

\* \s*
RECURSIVE MSpaces0(_, _)
MSpaces0(t, i) == IF i # 0 /\ IsSpace(CharAt(t, i)) THEN MSpaces0(t, i + 1) ELSE i

\* \s+
MSpaces1(t, i) == IF i # 0 /\ IsSpace(CharAt(t, i)) THEN MSpaces0(t, i + 1) ELSE 0

\* \d+
RECURSIVE MDigits0(_, _)
MDigits0(t, i) == IF IsDigit(CharAt(t, i)) THEN MDigits0(t, i + 1) ELSE i
MDigits(t, i) == IF i # 0 /\ IsDigit(CharAt(t, i)) THEN MDigits0(t, i + 1) ELSE 0

\* [a-z]+ and [A-Z]{2,}
RECURSIVE MLowers0(_, _)
MLowers0(t, i) == IF IsLower(CharAt(t, i)) THEN MLowers0(t, i + 1) ELSE i
MLowers(t, i) == IF i # 0 /\ IsLower(CharAt(t, i)) THEN MLowers0(t, i + 1) ELSE 0
RECURSIVE MUppers0(_, _)
MUppers0(t, i) == IF IsUpper(CharAt(t, i)) THEN MUppers0(t, i + 1) ELSE i
MUpper(t, i) == IF i # 0 /\ IsUpper(CharAt(t, i)) THEN i + 1 ELSE 0

\* \b at the gap before index i
MBoundary(t, i) ==
    IF i # 0 /\ IsWordChar(CharAt(t, i - 1)) # IsWordChar(CharAt(t, i)) THEN i ELSE 0

\* int(match.group(1)) for a group of digits
RECURSIVE ParseInt(_)
ParseInt(ds) ==
    IF ds = << >> THEN 0
    ELSE 10 * ParseInt(SubSeq(ds, 1, Len(ds) - 1))
         + (CHOOSE d \in 0..9 : DigitChars[d + 1] = ds[Len(ds)])

\* matcher.py:98  \b[A-Z][a-z]+[A-Z][a-z]+\b
CamelCaseWord(t, i) == MBoundary(t, MLowers(t, MUpper(t, MLowers(t, MUpper(t, MBoundary(t, i))))))

\* matcher.py:99  \b[A-Z]{2,}\b
AllCapsWord(t, i) ==
    LET b == MBoundary(t, i)
        e == IF b # 0 THEN MUppers0(t, b) ELSE 0
    IN IF b # 0 /\ e - b >= 2 THEN MBoundary(t, e) ELSE 0

\* matcher.py:108  (\d+)\+?\s*years?\s+experience
YearsExperience(t, i) ==
    MLit(t, MSpaces1(t, MOpt(t, MLit(t, MSpaces0(t, MOpt(t, MDigits(t, i), "+")), <<"y", "e", "a", "r">>), "s")),
         <<"e", "x", "p", "e", "r", "i", "e", "n", "c", "e">>)

\* matcher.py:109  experience\s+of\s+(\d+)\+?\s*years?   (group 1 starts at OfGroup)
OfGroup(t, i) == MSpaces1(t, MLit(t, MSpaces1(t, MLit(t, i, <<"e", "x", "p", "e", "r", "i", "e", "n", "c", "e">>)), <<"o", "f">>))
ExperienceOfYears(t, i) ==
    MOpt(t, MLit(t, MSpaces0(t, MOpt(t, MDigits(t, OfGroup(t, i)), "+")), <<"y", "e", "a", "r">>), "s")

\* matcher.py:110 and :212  (\d+)\s*-\s*\d+\s*years
YearsRange(t, i) ==
    MLit(t, MSpaces0(t, MDigits(t, MSpaces0(t, MLit(t, MSpaces0(t, MDigits(t, i)), <<"-">>)))), <<"y", "e", "a", "r", "s">>)

\* matcher.py:209  (\d+)\+?\s*years
PlainYears(t, i) == MLit(t, MSpaces0(t, MOpt(t, MDigits(t, i), "+")), <<"y", "e", "a", "r", "s">>)

\* matcher.py:210  (\d+)\+?\s*years? experience
YearsSpaceExperience(t, i) ==
    MLit(t, MOpt(t, MLit(t, MSpaces0(t, MOpt(t, MDigits(t, i), "+")), <<"y", "e", "a", "r">>), "s"), <<" ", "e", "x", "p", "e", "r", "i", "e", "n", "c", "e">>)

\* matcher.py:211  experience of (\d+)\+?\s*years   (group 1 starts at OfGroupPlain)
OfGroupPlain(t, i) == MLit(t, i, <<"e", "x", "p", "e", "r", "i", "e", "n", "c", "e", " ", "o", "f", " ">>)
ExperienceOfYearsPlain(t, i) ==
    MLit(t, MSpaces0(t, MOpt(t, MDigits(t, OfGroupPlain(t, i)), "+")), <<"y", "e", "a", "r", "s">>)

\* re.search: the leftmost start at which a pattern matches, 0 for none
Leftmost(hits) == IF hits = {} THEN 0 ELSE CHOOSE i \in hits : \A j \in hits : i <= j
SearchYearsExperience(t) == Leftmost({i \in 1..Len(t) : YearsExperience(t, i) # 0})
SearchExperienceOfYears(t) == Leftmost({i \in 1..Len(t) : ExperienceOfYears(t, i) # 0})
SearchYearsRange(t) == Leftmost({i \in 1..Len(t) : YearsRange(t, i) # 0})
SearchPlainYears(t) == Leftmost({i \in 1..Len(t) : PlainYears(t, i) # 0})
SearchYearsSpaceExperience(t) == Leftmost({i \in 1..Len(t) : YearsSpaceExperience(t, i) # 0})
SearchExperienceOfYearsPlain(t) == Leftmost({i \in 1..Len(t) : ExperienceOfYearsPlain(t, i) # 0})

\* match.group(1) when the group of digits starts at g
DigitGroup(t, g) == SubSeq(t, g, MDigits(t, g) - 1)

\* re.findall for the two technical-word patterns: non-overlapping, left to right
RECURSIVE FindAllCamelCase(_, _)
FindAllCamelCase(t, i) ==
    IF i > Len(t) THEN << >>
    ELSE LET e == CamelCaseWord(t, i)
         IN IF e # 0 THEN <<SubSeq(t, i, e - 1)>> \o FindAllCamelCase(t, e)
            ELSE FindAllCamelCase(t, i + 1)
RECURSIVE FindAllCaps(_, _)
FindAllCaps(t, i) ==
    IF i > Len(t) THEN << >>
    ELSE LET e == AllCapsWord(t, i)
         IN IF e # 0 THEN <<SubSeq(t, i, e - 1)>> \o FindAllCaps(t, e)
            ELSE FindAllCaps(t, i + 1)

\* f"experience_{group}_years"
ExperienceToken(group) == <<"e", "x", "p", "e", "r", "i", "e", "n", "c", "e", "_">> \o group \o <<"_", "y", "e", "a", "r", "s">>

\* matcher.py:106-116: one token for every pattern that matches
YearsTokens(text) ==
    LET Tokens(a, b, c) ==
            (IF a # 0 THEN <<ExperienceToken(DigitGroup(text, a))>> ELSE << >>)
            \o (IF b # 0 THEN <<ExperienceToken(DigitGroup(text, OfGroup(text, b)))>> ELSE << >>)
            \o (IF c # 0 THEN <<ExperienceToken(DigitGroup(text, c))>> ELSE << >>)
    IN Tokens(SearchYearsExperience(text), SearchExperienceOfYears(text), SearchYearsRange(text))

\* matcher.py:101-104: append the lowercased words not yet in the list
RECURSIVE AppendNew(_, _)
AppendNew(found, words) ==
    IF words = << >> THEN found
    ELSE LET w == Lower(Head(words))
         IN AppendNew(IF w \in SeqToSet(found) THEN found ELSE Append(found, w), Tail(words))

\* ResumeMatcher._extract_job_keywords
ExtractJobKeywords(job_description) ==
    LET text == Lower(job_description)
        InText(skill) == Contains(text, skill)
        found == SelectSeq(common_skills, InText)
        tech_words == FindAllCamelCase(job_description, 1) \o FindAllCaps(job_description, 1)
        found2 == AppendNew(found, Take(tech_words, 10))
    IN SetToList(SeqToSet(found2 \o YearsTokens(text)))

\* ResumeMatcher._extract_years_required
ExtractYearsRequired(job_description) ==
    LET text == Lower(job_description)
        AnyIn(kws) == \E i \in 1..Len(kws) : Contains(text, kws[i])
        \* a, b, c, d: where each pattern of lines 209-212 matches first
        Required(a, b, c, d) ==
            IF a # 0 THEN ParseInt(DigitGroup(text, a))
            ELSE IF b # 0 THEN ParseInt(DigitGroup(text, b))
            ELSE IF c # 0 THEN ParseInt(DigitGroup(text, OfGroupPlain(text, c)))
            ELSE IF d # 0 THEN ParseInt(DigitGroup(text, d))
            ELSE IF AnyIn(level_keywords.senior) THEN 5
            ELSE IF AnyIn(level_keywords.mid) THEN 3
            ELSE IF AnyIn(level_keywords.junior) THEN 1
            ELSE 0
    IN Required(SearchPlainYears(text), SearchYearsSpaceExperience(text),
                SearchExperienceOfYearsPlain(text), SearchYearsRange(text))

\* ResumeMatcher._get_experience_level
GetExperienceLevel(years) ==
    IF years >= 8 THEN "Senior/Expert"
    ELSE IF years >= 5 THEN "Senior"
    ELSE IF years >= 3 THEN "Mid-level"
    ELSE IF years >= 1 THEN "Junior"
    ELSE "Entry-level"

\* _calculate_experience_match with the ratio truncated instead of rounded
ExperienceMatchTruncated(experience, job_description) ==
    LET resume_years == experience.years
        Scored(years_required) ==
            LET ratio == RoundDown(resume_years * 100, years_required)
                match_score ==
                    IF years_required > 0
                    THEN IF resume_years >= years_required THEN 100
                         ELSE IF resume_years > 0 THEN (IF ratio > 100 THEN 100 ELSE ratio)
                         ELSE 0
                    ELSE IF resume_years >= 8 THEN 90
                         ELSE IF resume_years >= 5 THEN 75
                         ELSE IF resume_years >= 3 THEN 60
                         ELSE IF resume_years >= 1 THEN 40
                         ELSE 20
            IN [years_required |-> years_required,
                years_actual   |-> resume_years,
                score          |-> match_score,
                match_level    |-> GetExperienceLevel(resume_years)]
    IN Scored(ExtractYearsRequired(job_description))

\* ResumeMatcher._calculate_experience_match
CalculateExperienceMatch(experience, job_description) ==
    LET resume_years == experience.years
        Scored(years_required) ==
            LET ratio == RoundHalfEven(resume_years * 100, years_required)
                match_score ==
                    IF years_required > 0
                    THEN IF resume_years >= years_required THEN 100
                         ELSE IF resume_years > 0 THEN (IF ratio > 100 THEN 100 ELSE ratio)
                         ELSE 0
                    ELSE IF resume_years >= 8 THEN 90
                         ELSE IF resume_years >= 5 THEN 75
                         ELSE IF resume_years >= 3 THEN 60
                         ELSE IF resume_years >= 1 THEN 40
                         ELSE 20
            IN [years_required |-> years_required,
                years_actual   |-> resume_years,
                score          |-> match_score,
                match_level    |-> GetExperienceLevel(resume_years)]
    IN Scored(ExtractYearsRequired(job_description))

\* set(text.lower().split())
RECURSIVE WordsFrom(_, _)
WordsFrom(s, i) ==
    LET p == MSpaces0(s, i)
        RECURSIVE WordEnd(_)
        WordEnd(j) == IF j <= Len(s) /\ ~IsSpace(s[j]) THEN WordEnd(j + 1) ELSE j
    IN IF p > Len(s) THEN {}
       ELSE {SubSeq(s, p, WordEnd(p) - 1)} \cup WordsFrom(s, WordEnd(p))

\* ResumeMatcher._calculate_text_similarity: the fraction num/den, on the 0-10 scale
CalculateTextSimilarity(resume_text, job_text) ==
    LET resume_words == WordsFrom(Lower(resume_text), 1)
        job_words == WordsFrom(Lower(job_text), 1)
    IN IF resume_words = {} \/ job_words = {} THEN [num |-> 0, den |-> 1]
       ELSE [num |-> 10 * Cardinality(resume_words \cap job_words),
             den |-> Cardinality(resume_words \cup job_words)]

\* matcher.py:54: the value used when use_ai is false, 0.7
DefaultSimilarity == [num |-> 7, den |-> 10]

\* _calculate_overall_score with the weights 0.4, 0.4, 0.2
OverallScoreOtherWeights(skill_match, experience_match, text_similarity, up) ==
    RoundTieEither((4 * skill_match.score + 4 * experience_match.score) * text_similarity.den
                      + 20 * text_similarity.num,
                  10 * text_similarity.den, up)

\* ResumeMatcher._calculate_overall_score: round(skill*0.5 + experience*0.3 + similarity*0.2, 1)
CalculateOverallScore(skill_match, experience_match, text_similarity, up) ==
    RoundTieEither((5 * skill_match.score + 3 * experience_match.score) * text_similarity.den
                      + 20 * text_similarity.num,
                  10 * text_similarity.den, up)

\* _get_recommendation with boundaries that exclude the boundary score
GetRecommendationExclusive(score) ==
    IF score > 85 THEN "strongly recommend"
    ELSE IF score > 70 THEN "recommend"
    ELSE IF score > 50 THEN "consider"
    ELSE "not recommended"

\* ResumeMatcher._get_recommendation; the four literals of matcher.py:341-347
GetRecommendation(score) ==
    IF score >= 85 THEN "strongly recommend"
    ELSE IF score >= 70 THEN "recommend"
    ELSE IF score >= 50 THEN "consider"
    ELSE "not recommended"

\* ResumeMatcher._generate_feedback: each line as its kind and the values put in it
GenerateFeedback(overall_score, skill_match, experience_match) ==
    LET missing == Take(skill_match.missing_skills, 3)
        pct == skill_match.percentage
        ya == experience_match.years_actual
        yr == experience_match.years_required
        Line(kind, values) == [kind |-> kind, values |-> values]
    IN <<Line(IF overall_score >= 85 THEN "overall excellent"
              ELSE IF overall_score >= 70 THEN "overall good"
              ELSE IF overall_score >= 50 THEN "overall medium"
              ELSE "overall low", << >>)>>
       \o <<Line(IF pct >= 800 THEN "skills excellent"
                 ELSE IF pct >= 600 THEN "skills fair"
                 ELSE "skills insufficient", <<pct>>)>>
       \o (IF pct < 600 /\ skill_match.missing_skills # << >>
           THEN <<Line("missing skills", missing)>> ELSE << >>)
       \o <<(IF yr > 0
             THEN IF ya >= yr THEN Line("experience met", <<ya>>)
                  ELSE Line("experience short", <<yr, ya>>)
             ELSE Line("experience", <<ya>>))>>
       \o (IF overall_score < 70 /\ skill_match.missing_skills # << >>
           THEN <<Line("advice", missing)>> ELSE << >>)

\* ResumeMatcher.match
Match(resume_info, job_description, use_ai, up) ==
    LET \* lines 65-81: the feedback and the result
        Result(job_keywords, skill_match, experience_match, text_similarity, overall_score) ==
            [overall_score    |-> overall_score,
             skill_match      |-> skill_match,
             experience_match |-> experience_match,
             text_similarity  |-> RoundHalfEven(10 * text_similarity.num, text_similarity.den),
             job_keywords     |-> Take(job_keywords, 20),
             feedback         |-> GenerateFeedback(overall_score, skill_match, experience_match),
             recommendation   |-> GetRecommendation(overall_score)]
        \* lines 58-62: overall_score
        Scored(job_keywords, skill_match, experience_match, text_similarity) ==
            Result(job_keywords, skill_match, experience_match, text_similarity,
                   CalculateOverallScore(skill_match, experience_match, text_similarity, up))
        \* lines 43-54: skill_match, experience_match, text_similarity
        Matched(job_keywords) ==
            Scored(job_keywords,
                   CalculateSkillMatch(resume_info.skills, job_keywords),
                   CalculateExperienceMatch(resume_info.experience, job_description),
                   IF use_ai
                   THEN CalculateTextSimilarity(resume_info.summary, Take(job_description, 500))
                   ELSE DefaultSimilarity)
    IN Matched(ExtractJobKeywords(job_description))

(***************************************************************************)
(* The matcher on its own: one call with arguments drawn from bounded sets *)
(***************************************************************************)
MaxKeywords == 8

KeywordVocabulary ==
    {<<"j", "a", "v", "a">>,
     <<"j", "a", "v", "a", "s", "c", "r", "i", "p", "t">>,
     <<"s", "q", "l">>,
     <<"m", "y", "s", "q", "l">>,
     <<"p", "y", "t", "h", "o", "n">>,
     <<"a", "w", "s">>,
     <<"d", "o", "c", "k", "e", "r">>,
     <<"g", "o">>,
     <<"e", "x", "p", "e", "r", "i", "e", "n", "c", "e", "_", "5", "_", "y", "e", "a", "r", "s">>}

NoSkills == [c \in SkillCategories |-> << >>]

ProfileSkills ==
    {NoSkills,
     [NoSkills EXCEPT !["programming"] = <<<<"P", "y", "t", "h", "o", "n">>>>, !["cloud"] = <<<<"A", "w", "s">>>>],
     [NoSkills EXCEPT !["programming"] = <<<<"J", "a", "v", "a">>>>, !["databases"] = <<<<"S", "q", "l">>>>],
     [NoSkills EXCEPT !["programming"] = <<<<"J", "a", "v", "a", "s", "c", "r", "i", "p", "t">>, <<"G", "o">>>>,
                      !["databases"] = <<<<"M", "y", "s", "q", "l">>>>, !["cloud"] = <<<<"D", "o", "c", "k", "e", "r">>>>]}

MaxYears == 8

SeniorPythonJob ==
    <<"L", "o", "o", "k", "i", "n", "g", " ", "f", "o", "r", " ", "a", " ", "S",
      "e", "n", "i", "o", "r", " ", "P", "y", "t", "h", "o", "n", " ", "D", "e",
      "v", "e", "l", "o", "p", "e", "r", " ", "w", "i", "t", "h", " ", "A", "W",
      "S", " ", "a", "n", "d", " ", "D", "o", "c", "k", "e", "r", " ", "e", "x",
      "p", "e", "r", "i", "e", "n", "c", "e", ",", " ", "5", "+", " ", "y", "e",
      "a", "r", "s", " ", "r", "e", "q", "u", "i", "r", "e", "d">>
TwoTenuresJob ==
    <<"P", "y", "t", "h", "o", "n", " ", "d", "e", "v", "e", "l", "o", "p", "e",
      "r", ",", " ", "3", "+", " ", "y", "e", "a", "r", "s", " ", "e", "x", "p",
      "e", "r", "i", "e", "n", "c", "e", " ", "o", "r", " ", "5", "-", "7", " ",
      "y", "e", "a", "r", "s">>
JuniorJavaJob ==
    <<"J", "u", "n", "i", "o", "r", " ", "J", "a", "v", "a", " ", "a", "n", "d",
      " ", "S", "Q", "L", " ", "e", "n", "g", "i", "n", "e", "e", "r">>
ExperienceOfJob ==
    <<"J", "a", "v", "a", "S", "c", "r", "i", "p", "t", " ", "a", "n", "d", " ",
      "M", "y", "S", "Q", "L", ",", " ", "e", "x", "p", "e", "r", "i", "e", "n",
      "c", "e", " ", "o", "f", " ", "2", " ", "y", "e", "a", "r", "s">>
EightYearsJob ==
    <<"8", " ", "y", "e", "a", "r", "s", " ", "e", "x", "p", "e", "r", "i", "e",
      "n", "c", "e", " ", "w", "i", "t", "h", " ", "D", "o", "c", "k", "e", "r",
      " ", "a", "n", "d", " ", "A", "W", "S">>

JobDescriptions ==
    {<< >>, SeniorPythonJob, TwoTenuresJob, JuniorJavaJob, ExperienceOfJob, EightYearsJob}

PythonSummary ==
    <<"S", "e", "n", "i", "o", "r", " ", "P", "y", "t", "h", "o", "n", " ", "d",
      "e", "v", "e", "l", "o", "p", "e", "r", " ", "w", "i", "t", "h", " ", "A",
      "W", "S">>

Summaries == {<< >>, PythonSummary, SeniorPythonJob}

\* What extract_info returns (ai_extractor.py:36-43), for the fields match reads
Profile(skills, years, summary) ==
    [basic_info |-> [name |-> << >>, phone |-> << >>, email |-> << >>, location |-> << >>],
     skills     |-> skills,
     experience |-> [years |-> years, companies |-> << >>, roles |-> << >>],
     education  |-> [degree |-> << >>, university |-> << >>, graduation_year |-> << >>],
     summary    |-> summary]

MatchArgs ==
    {[fn |-> "match", resume_info |-> Profile(sk, y, su), job_description |-> jd, use_ai |-> f] :
        sk \in ProfileSkills, y \in 0..MaxYears, su \in Summaries,
        jd \in JobDescriptions, f \in BOOLEAN}

\* AIExtractor._estimate_experience_years
EstimateExperienceYears(text) ==
    LET n == Len(text)
        \* date_pattern = r'(19|20)\d{2}' matches at i
        DateAt(i) ==
            /\ i + 3 <= n
            /\ \/ text[i] = "1" /\ text[i + 1] = "9"
               \/ text[i] = "2" /\ text[i + 1] = "0"
            /\ IsDigit(text[i + 2])
            /\ IsDigit(text[i + 3])
        \* re.findall from position i on: the pattern has one group, so each
        \* non-overlapping match contributes what the group captured
        findall[i \in 1..(n + 1)] ==
            IF i > n THEN << >>
            ELSE IF DateAt(i) THEN <<SubSeq(text, i, i + 1)>> \o findall[i + 4]
            ELSE findall[i + 1]
        DigitsEnd(t, i) == CHOOSE j \in i..(n + 1) :
            /\ j > n \/ ~IsDigit(t[j])
            /\ \A k \in i..(j - 1) : IsDigit(t[k])
        SpacesEnd(t, i) == CHOOSE j \in i..(n + 1) :
            /\ j > n \/ ~IsSpace(t[j])
            /\ \A k \in i..(j - 1) : IsSpace(t[k])
        \* rf'(\d+)\s*{keyword}' matches at i
        KeywordAt(t, keyword, i) ==
            /\ IsDigit(t[i])
            /\ LET At(k) == /\ k + Len(keyword) - 1 <= n
                            /\ SubSeq(t, k, k + Len(keyword) - 1) = keyword
               IN At(SpacesEnd(t, DigitsEnd(t, i)))
        Group1(t, i) == IF i = 0 THEN -1 ELSE ParseInt(SubSeq(t, i, DigitsEnd(t, i) - 1))
        \* re.search(pattern, text.lower()): int(match.group(1)), or -1 for no match
        Search(t, keyword) == Group1(t, Leftmost({i \in 1..n : KeywordAt(t, keyword, i)}))
        senior_keywords == {<<"s", "e", "n", "i", "o", "r">>, <<"l", "e", "a", "d">>,
                            <<"p", "r", "i", "n", "c", "i", "p", "a", "l">>,
                            <<"a", "r", "c", "h", "i", "t", "e", "c", "t">>,
                            <<"d", "i", "r", "e", "c", "t", "o", "r">>}
        junior_keywords == {<<"j", "u", "n", "i", "o", "r">>, <<"e", "n", "t", "r", "y">>,
                            <<"f", "r", "e", "s", "h">>,
                            <<"g", "r", "a", "d", "u", "a", "t", "e">>,
                            <<"i", "n", "t", "e", "r", "n">>}
        ByRole(text_lower) ==
            IF \E keyword \in senior_keywords : Contains(text_lower, keyword) THEN 5
            ELSE IF \E keyword \in junior_keywords : Contains(text_lower, keyword) THEN 1
            ELSE 3
        \* the loop over experience_keywords = ['years', 'experience', 'experienced']
        ByKeyword(text_lower) ==
            LET First(a, b, c) ==
                    IF a # -1 THEN a ELSE IF b # -1 THEN b ELSE IF c # -1 THEN c
                    ELSE ByRole(text_lower)
            IN First(Search(text_lower, <<"y", "e", "a", "r", "s">>),
                     Search(text_lower, <<"e", "x", "p", "e", "r", "i", "e", "n", "c", "e">>),
                     Search(text_lower, <<"e", "x", "p", "e", "r", "i", "e", "n", "c", "e", "d">>))
        Span(years_int) ==
            LET min_year == CHOOSE y \in years_int : \A z \in years_int : y <= z
                max_year == CHOOSE y \in years_int : \A z \in years_int : z <= y
            IN max_year - min_year
        ByDates(years) ==
            LET years_int == {y \in {ParseInt(years[i]) : i \in 1..Len(years)} :
                                  1900 < y /\ y <= 2024}
            IN IF Len(years) >= 2 /\ years_int # {} THEN Span(years_int)
               ELSE ByKeyword(Lower(text))
    IN ByDates(findall[1])

\* _estimate_experience_years(text): resumes made of an employment period, a
\* stated tenure and a role, each present or not
EstimateArgs ==
    LET Periods == {<< >>, <<"2", "0", "1", "5", " ", "-", " ", "2", "0", "2", "0", " ">>, <<"s", "i", "n", "c", "e", " ", "2", "0", "1", "8", " ">>, <<"1", "9", "9", "9", " ", "2", "0", "1", "0", " ", "2", "0", "2", "4", " ">>}
        Tenures == {<< >>, <<"3", " ", "y", "e", "a", "r", "s", " ">>, <<"7", " ", "e", "x", "p", "e", "r", "i", "e", "n", "c", "e", " ">>, <<"1", "2", " ", "Y", "e", "a", "r", "s", " ">>}
        Roles == {<< >>, <<"S", "e", "n", "i", "o", "r">>, <<"j", "u", "n", "i", "o", "r">>, <<"s", "t", "a", "f", "f">>}
    IN {[fn |-> "_estimate_experience_years", text |-> p \o t \o r] :
            p \in Periods, t \in Tenures, r \in Roles}

\* _get_recommendation(score): every one-decimal score from 0.0 to 10.0
RecommendationArgs == {[fn |-> "_get_recommendation", score |-> sc] : sc \in 0..100}

SkillMatchArgs ==
    {[fn |-> "_calculate_skill_match", resume_skills |-> rs, job_keywords |-> SetToList(ks)] :
        rs \in ProfileSkills,
        ks \in {x \in SUBSET KeywordVocabulary : Cardinality(x) <= MaxKeywords}}

InitMatch ==
    /\ sys = [b \in Backends |-> InitSys(b)]
    /\ now = 0
    /\ resp = [b \in Backends |-> [op |-> "init", key |-> "", at |-> 0, ret |-> None]]
    /\ lastSet = [k \in CacheKeys |-> NeverSet]
    /\ margs \in SkillMatchArgs \cup MatchArgs \cup RecommendationArgs \cup EstimateArgs
    /\ mret = None
    /\ pyhash = EmptyDict
    /\ uuids = 0
    /\ issued = EmptyDict
    /\ computed = EmptyDict
    /\ analyses = 0
    /\ threads = EmptyDict
    /\ calls = 0
    /\ wrote = {}

CallSkillMatch ==
    /\ mret = None
    /\ margs.fn = "_calculate_skill_match"
    /\ mret' = CalculateSkillMatch(margs.resume_skills, margs.job_keywords)
    /\ UNCHANGED <<matchOnly, margs>>

CallMatch ==
    /\ mret = None
    /\ margs.fn = "match"
    /\ \E up \in BOOLEAN :
           mret' = Match(margs.resume_info, margs.job_description, margs.use_ai, up)
    /\ UNCHANGED <<matchOnly, margs>>

CallGetRecommendation ==
    /\ mret = None
    /\ margs.fn = "_get_recommendation"
    /\ mret' = [recommendation |-> GetRecommendation(margs.score)]
    /\ UNCHANGED <<matchOnly, margs>>

CallEstimateExperienceYears ==
    /\ mret = None
    /\ margs.fn = "_estimate_experience_years"
    /\ mret' = [years |-> EstimateExperienceYears(margs.text)]
    /\ UNCHANGED <<matchOnly, margs>>

NextMatch ==
    \/ CallSkillMatch
    \/ CallMatch
    \/ CallGetRecommendation
    \/ CallEstimateExperienceYears

SpecMatch == InitMatch /\ [][NextMatch]_vars

SkillMatchReturned == margs.fn = "_calculate_skill_match" /\ mret # None

\* C10 as claimed: percentage lies in [0,100], is 0 without job keywords, equals
\* matchedCount / totalKeywords * 100, and score equals percentage / 10 exactly.
ScoreIsExactlyPercentageOverTen ==
    SkillMatchReturned =>
        LET m == Len(mret.matched_skills)
            n == Len(margs.job_keywords)
        IN /\ mret.percentage \in 0..1000
           /\ (n = 0 => mret.percentage = 0)
           /\ mret.percentage * n = m * 1000
           /\ mret.score * 10 = mret.percentage

\* C10 as amended: percentage is matchedCount / totalKeywords * 100 rounded to
\* one decimal and lies in [0,100] (0 without job keywords); score is
\* matchedCount / totalKeywords * 10 rounded to one decimal, so it is within
\* 0.05 of percentage / 10.
ScoreIsPercentageOverTenRounded ==
    SkillMatchReturned =>
        LET m == Len(mret.matched_skills)
            n == Len(margs.job_keywords)
            Abs(x) == IF x < 0 THEN -x ELSE x
        IN /\ mret.percentage \in 0..1000
           /\ mret.score \in 0..100
           /\ (n = 0 => mret.percentage = 0 /\ mret.score = 0)
           /\ 2 * Abs(mret.percentage * n - m * 1000) <= n
           /\ 2 * Abs(mret.score * n - m * 100) <= n
           /\ Abs(mret.score * 10 - mret.percentage) <= 5

\* C10 witness: one of three keywords matched, 33.3 percent and a score of 3.3
SkillMatchOneThird ==
    /\ SkillMatchReturned
    /\ Len(margs.job_keywords) = 3
    /\ Len(mret.matched_skills) = 1
    /\ mret.percentage = 333
    /\ mret.score = 33

MatchReturned == margs.fn = "match" /\ mret # None

\* |10 * overall - (5 * skill + 3 * experience + 2 * similarity)| <= 5, all in
\* tenths: overall is the weighted sum with this similarity, rounded to a tenth
OverallUses(similarity) ==
    LET exact == 5 * mret.skill_match.score + 3 * mret.experience_match.score + 2 * similarity
        d == 10 * mret.overall_score - exact
    IN d <= 5 /\ -d <= 5

\* C9 as claimed: with use_ai false the similarity reported as text_similarity
\* and used in the overall score is 7.0 on the 0-10 scale, for every profile and
\* job description.
DisabledSimilarityIsSeven ==
    (MatchReturned /\ ~margs.use_ai) =>
        /\ mret.text_similarity = 70
        /\ OverallUses(70)

\* C9, what the code computes: with use_ai false the similarity reported and
\* used is 0.7
DisabledSimilarityIsSevenTenths ==
    (MatchReturned /\ ~margs.use_ai) =>
        /\ mret.text_similarity = 7
        /\ OverallUses(7)

\* C9 witness of the failure: full skill and experience scores with use_ai
\* false give 8.1, not the 9.4 that a similarity of 7.0 would give
DisabledSimilarityCostsATier ==
    /\ MatchReturned
    /\ ~margs.use_ai
    /\ mret.skill_match.score = 100
    /\ mret.experience_match.score = 100
    /\ mret.text_similarity = 7
    /\ mret.overall_score = 81
    /\ mret.recommendation = "recommend"

\* The scenario of C11: the senior Python job against a profile with the skills
\* Python and AWS and 6 years, any summary, either flag
SeniorPythonScenario ==
    /\ MatchReturned
    /\ margs.job_description = SeniorPythonJob
    /\ AllResumeSkills(margs.resume_info.skills) = {<<"p", "y", "t", "h", "o", "n">>, <<"a", "w", "s">>}
    /\ margs.resume_info.experience.years = 6

\* C11, the part the code keeps: years_required is 5, the experience score is
\* 10.0, the skill percentage is strictly between 0 and 100 and docker is missing
SeniorPythonScenarioScores ==
    SeniorPythonScenario =>
        /\ mret.experience_match.years_required = 5
        /\ mret.experience_match.score = 100
        /\ mret.skill_match.percentage > 0
        /\ mret.skill_match.percentage < 1000
        /\ <<"d", "o", "c", "k", "e", "r">> \in SeqToSet(mret.skill_match.missing_skills)

\* C11 as claimed: in the scenario match yields years_required 5, experience
\* score 10.0, a skill percentage strictly between 0 and 100 with docker among
\* the missing skills, and the recommendation "recommend" or "strongly
\* recommend", for every summary and either value of the flag.
SeniorPythonScenarioRecommended ==
    /\ SeniorPythonScenarioScores
    /\ SeniorPythonScenario => mret.recommendation \in {"recommend", "strongly recommend"}

\* C11 witness of the failure: with use_ai false the scenario scores 6.5, which
\* is "consider"
SeniorPythonScenarioOnlyConsidered ==
    /\ SeniorPythonScenario
    /\ ~margs.use_ai
    /\ mret.skill_match.percentage = 667
    /\ mret.skill_match.score = 67
    /\ mret.experience_match.score = 100
    /\ mret.overall_score = 65
    /\ mret.recommendation = "consider"

RecommendationReturned == margs.fn = "_get_recommendation" /\ mret # None

\* the tier that C12 gives a one-decimal score (in tenths)
TierOfScore(score, tier) ==
    /\ score >= 85 => tier = "strongly recommend"
    /\ (score >= 70 /\ score < 85) => tier = "recommend"
    /\ (score >= 50 /\ score < 70) => tier = "consider"
    /\ score < 50 => tier = "not recommended"

\* C12: the recommendation is a function of the score with inclusive lower
\* boundaries (8.5 and above strongly recommend, 7.0 up to 8.5 recommend, 5.0 up
\* to 7.0 consider, below 5.0 not recommended), and the tier match returns is
\* the tier of the one-decimal overall score it reports.
RecommendationFollowsTiers ==
    /\ RecommendationReturned => TierOfScore(margs.score, mret.recommendation)
    /\ MatchReturned => TierOfScore(mret.overall_score, mret.recommendation)

\* C12 witness: a score of exactly 8.5 is answered with the top tier
BoundaryScoreGetsUpperTier ==
    /\ RecommendationReturned
    /\ margs.score = 85
    /\ mret.recommendation = "strongly recommend"

\* the similarity match passes to _calculate_overall_score (matcher.py:51-54)
SimilarityUsed ==
    IF margs.use_ai
    THEN CalculateTextSimilarity(margs.resume_info.summary, Take(margs.job_description, 500))
    ELSE DefaultSimilarity

\* C13: the overall score match returns is skill score x 0.5 + experience score
\* x 0.3 + similarity x 0.2 rounded to one decimal (within 0.05 of the exact
\* sum), and lies in [0,10], for every profile, job description and flag.
OverallIsWeightedSum ==
    MatchReturned =>
        LET sim == SimilarityUsed
            \* the exact sum in hundredths, times sim.den
            exact == (5 * mret.skill_match.score + 3 * mret.experience_match.score) * sim.den
                         + 20 * sim.num
            d == 10 * mret.overall_score * sim.den - exact
        IN /\ d <= 5 * sim.den
           /\ -d <= 5 * sim.den
           /\ mret.overall_score \in 0..100

\* C13 witness: a similarity of 50/14 with skill score 6.7 and experience score
\* 10.0 gives 7.064..., reported as 7.1
OverallWithFractionalSimilarity ==
    /\ MatchReturned
    /\ margs.use_ai
    /\ SimilarityUsed = [num |-> 50, den |-> 14]
    /\ mret.skill_match.score = 67
    /\ mret.experience_match.score = 100
    /\ mret.text_similarity = 36
    /\ mret.overall_score = 71

\* the experience score by actual years when no tenure is required
BracketScore(actual) ==
    IF actual >= 8 THEN 90
    ELSE IF actual >= 5 THEN 75
    ELSE IF actual >= 3 THEN 60
    ELSE IF actual >= 1 THEN 40
    ELSE 20

\* C14 as claimed: with years_required > 0 the experience score is 10 if actual
\* >= required, min(10, actual / required * 10) if 0 < actual < required and 0
\* if actual is 0; with years_required = 0 it is 9.0, 7.5, 6.0, 4.0 or 2.0 by the
\* bracket of the actual years; it lies in [0,10].
ExperienceScoreIsExactRatio ==
    MatchReturned =>
        LET e == mret.experience_match
            required == e.years_required
            actual == e.years_actual
        IN /\ actual = margs.resume_info.experience.years
           /\ (required > 0 /\ actual >= required) => e.score = 100
           /\ (required > 0 /\ actual > 0 /\ actual < required) => e.score * required = actual * 100
           /\ (required > 0 /\ actual = 0) => e.score = 0
           /\ required = 0 => e.score = BracketScore(actual)
           /\ e.score \in 0..100

\* C14 as amended: the same, with the ratio actual / required * 10 rounded to
\* one decimal when 0 < actual < required.
ExperienceScoreIsRoundedRatio ==
    MatchReturned =>
        LET e == mret.experience_match
            required == e.years_required
            actual == e.years_actual
            d == e.score * required - actual * 100
        IN /\ actual = margs.resume_info.experience.years
           /\ (required > 0 /\ actual >= required) => e.score = 100
           /\ (required > 0 /\ actual > 0 /\ actual < required) =>
                  (2 * d <= required /\ -2 * d <= required)
           /\ (required > 0 /\ actual = 0) => e.score = 0
           /\ required = 0 => e.score = BracketScore(actual)
           /\ e.score \in 0..100

\* C14 witness: 2 years against a requirement of 3 score 6.7
TwoOfThreeYears ==
    /\ MatchReturned
    /\ mret.experience_match.years_required = 3
    /\ mret.experience_match.years_actual = 2
    /\ mret.experience_match.score = 67

\* match has returned for an empty job description and an empty profile
EmptyScenario ==
    /\ MatchReturned
    /\ margs.job_description = << >>
    /\ margs.resume_info.skills = NoSkills
    /\ margs.resume_info.experience.years = 0
    /\ margs.resume_info.summary = << >>

\* C15: an empty job description against an empty profile (no skills, 0 years,
\* empty summary) gives no job keywords, skill percentage 0, no missing skills,
\* and an overall score that is the experience-bracket default 2.0 x 0.3 plus the
\* similarity term x 0.2, rounded to one decimal.
EmptyScenarioScores ==
    EmptyScenario =>
        LET sim == SimilarityUsed
            d == 10 * mret.overall_score * sim.den - (3 * 20 * sim.den + 20 * sim.num)
        IN /\ mret.job_keywords = << >>
           /\ mret.skill_match.percentage = 0
           /\ mret.skill_match.score = 0
           /\ mret.skill_match.missing_skills = << >>
           /\ mret.experience_match.score = 20
           /\ d <= 5 * sim.den
           /\ -d <= 5 * sim.den
           /\ mret.overall_score = IF margs.use_ai THEN 6 ELSE 7

\* C15 witness: the empty scenario with similarity disabled scores 0.7 overall
EmptyScenarioWithoutSimilarity ==
    /\ EmptyScenario
    /\ ~margs.use_ai
    /\ mret.job_keywords = << >>
    /\ mret.experience_match.score = 20
    /\ mret.overall_score = 7

EstimateReturned == margs.fn = "_estimate_experience_years" /\ mret # None

\* the positions at which a 4-digit number y with 1900 < y <= 2024 stands in text
YearTokenPositions(text) ==
    {i \in 1..(Len(text) - 3) :
        /\ \A k \in i..(i + 3) : IsDigit(text[k])
        /\ i > 1 => ~IsDigit(text[i - 1])
        /\ i + 4 <= Len(text) => ~IsDigit(text[i + 4])
        /\ 1900 < ParseInt(SubSeq(text, i, i + 3))
        /\ ParseInt(SubSeq(text, i, i + 3)) <= 2024}

\* the largest year token of text minus the smallest
YearTokenSpan(text) ==
    LET ys == {ParseInt(SubSeq(text, i, i + 3)) : i \in YearTokenPositions(text)}
    IN (CHOOSE y \in ys : \A z \in ys : z <= y) - (CHOOSE y \in ys : \A z \in ys : y <= z)

\* C16 as claimed: whenever the text holds at least two 4-digit year tokens y
\* with 1900 < y <= 2024, the estimated years are the largest such year minus
\* the smallest, whatever the 'N years' pattern and the role keywords would give.
TwoYearTokensGiveTheirSpan ==
    (EstimateReturned /\ Cardinality(YearTokenPositions(margs.text)) >= 2) =>
        mret.years = YearTokenSpan(margs.text)

\* C16 witness: a text with the years 2015 and 2020 and the tenure "3 years" is
\* estimated at 3 years, not 5
StatedTenureOverridesYearSpan ==
    /\ EstimateReturned
    /\ Cardinality(YearTokenPositions(margs.text)) = 2
    /\ YearTokenSpan(margs.text) = 5
    /\ Contains(margs.text, <<"3", " ", "y", "e", "a", "r", "s">>)
    /\ mret.years = 3

\* the positions of the tokens experience_<N>_years in a keyword list
TenureTokens(keywords) ==
    {i \in 1..Len(keywords) :
        /\ Len(keywords[i]) > 17
        /\ SubSeq(keywords[i], 1, 11) = <<"e", "x", "p", "e", "r", "i", "e", "n", "c", "e", "_">>
        /\ SubSeq(keywords[i], Len(keywords[i]) - 5, Len(keywords[i])) = <<"_", "y", "e", "a", "r", "s">>
        /\ \A j \in 12..(Len(keywords[i]) - 6) : IsDigit(keywords[i][j])}

\* the keyword list has no duplicates
KeywordsDistinct ==
    MatchReturned =>
        \A i, j \in 1..Len(mret.job_keywords) :
            mret.job_keywords[i] = mret.job_keywords[j] => i = j

\* C18 as claimed: for every job description the returned keyword list has no
\* duplicates and at most one token of the form experience_<N>_years.
AtMostOneTenureToken ==
    /\ KeywordsDistinct
    /\ MatchReturned => Cardinality(TenureTokens(mret.job_keywords)) <= 1

\* C18 witness: "3+ years experience or 5-7 years" yields both experience_3_years
\* and experience_5_years
TwoTenureTokens ==
    /\ MatchReturned
    /\ margs.job_description = TwoTenuresJob
    /\ \E i, j \in 1..Len(mret.job_keywords) :
           /\ mret.job_keywords[i] = <<"e", "x", "p", "e", "r", "i", "e", "n", "c", "e", "_", "3", "_", "y", "e", "a", "r", "s">>
           /\ mret.job_keywords[j] = <<"e", "x", "p", "e", "r", "i", "e", "n", "c", "e", "_", "5", "_", "y", "e", "a", "r", "s">>

(***************************************************************************)
(* The request handlers (app.py).  A handler runs from its first access to *)
(* shared state to its return without an await, so it is one step.         *)
(***************************************************************************)
MaxUploads == 2
MaxAnalyses == 2
MaxWaits == 1

UPLOAD_TTL == 3600
ANALYZE_TTL == 1800
MAX_FILE_SIZE == 10 * 1024 * 1024

\* An uploaded document: its bytes, their length, whether pdfplumber can read
\* them, and the text it extracts when it can.
TextA == <<"S", "e", "n", "i", "o", "r", " ", "P", "y", "t", "h", "o", "n", " ", "d", "e", "v", "e", "l", "o", "p", "e", "r", " ", "w", "i", "t", "h", " ", "A", "W", "S">>
TextB == <<"J", "a", "v", "a", " ", "a", "n", "d", " ", "S", "Q", "L">>
DocA == [bytes |-> "A", size |-> 2048, readable |-> TRUE, text |-> TextA]
DocB == [bytes |-> "B", size |-> 4096, readable |-> TRUE, text |-> TextB]
DocCorrupt == [bytes |-> "C", size |-> 512, readable |-> FALSE, text |-> << >>]
DocHuge == [bytes |-> "H", size |-> MAX_FILE_SIZE + 1, readable |-> TRUE, text |-> TextA]

UploadFiles ==
    {[filename |-> <<"c", "v", ".", "p", "d", "f">>, content |-> DocA],
     [filename |-> <<"C", "V", ".", "P", "D", "F">>, content |-> DocB],
     [filename |-> <<"c", "v", ".", "t", "x", "t">>, content |-> DocA],
     [filename |-> <<"c", "v", ".", "p", "d", "f">>, content |-> DocCorrupt],
     [filename |-> <<"c", "v", ".", "p", "d", "f">>, content |-> DocHuge]}

\* Job descriptions the analyze requests carry
JavaJob == <<"J", "a", "v", "a">>
CloudJob == <<"A", "W", "S", ",", " ", "5", "+", " ", "y", "e", "a", "r", "s">>
AppJobs == {JavaJob, CloudJob}

\* what the handlers pass to hash(): document bytes and job descriptions
HashedBytes == <<(<<"bytes", DocA.bytes>>), (<<"bytes", DocB.bytes>>), (<<"bytes", DocCorrupt.bytes>>)>>
HashedStrs == <<(<<"str", JavaJob>>), (<<"str", CloudJob>>)>>
Hashed == SeqToSet(HashedBytes) \cup SeqToSet(HashedStrs)
HashValues == 1..3

\* The handlers only compare hash values for equality (inside cache keys), so a
\* hash function is taken up to a renaming of its values: along xs, each value
\* is an earlier one or the next unused one.
Canonical(h, xs) ==
    \A i \in 1..Len(xs) :
        \/ h[xs[i]] = 1
        \/ \E j \in 1..(i - 1) : h[xs[j]] = h[xs[i]] \/ h[xs[j]] = h[xs[i]] - 1

\* hash() as one interpreter run can compute it: any function, equal values for
\* different arguments included
HashFunctions ==
    {h \in [Hashed -> HashValues] : Canonical(h, HashedBytes) /\ Canonical(h, HashedStrs)}

\* hash(x): fixed for the run, unknown before it (PYTHONHASHSEED), and not injective
PyHash(x) == pyhash[x]

\* uuid4 returning one and the same identifier
StaleId(n) == 1

\* uuid.uuid4(): an identifier no earlier call produced
FreshId(n) == n + 1

Ids == 1..(MaxUploads + 1)

\* str.endswith
EndsWith(s, suffix) ==
    Len(s) >= Len(suffix) /\ SubSeq(s, Len(s) - Len(suffix) + 1, Len(s)) = suffix

\* a parser that extracts text from anything
PdfParseAnything(content) == [raised |-> FALSE, text |-> content.text]

\* PDFParser.parse: the text, or the exception "PDF parsing failed: ..."
PdfParse(content) == [raised |-> ~content.readable, text |-> content.text]

\* AIExtractor.extract_info on the two texts of the model
ExtractInfo(text) ==
    IF text = TextA
    THEN Profile([NoSkills EXCEPT !["programming"] = <<<<"P", "y", "t", "h", "o", "n">>>>, !["cloud"] = <<<<"A", "w", "s">>>>], 5, TextA)
    ELSE Profile([NoSkills EXCEPT !["programming"] = <<<<"J", "a", "v", "a">>>>, !["databases"] = <<<<"S", "q", "l">>>>], 3, TextB)

\* matcher.match(resume_data["extracted_info"], job_description, use_ai=...)
\* (app.py:172-176): match is a pure function, so its values on the profiles and
\* job descriptions of the requests are computed once, as the graph of the function
MatchGraph ==
    {<<a, Match(a[1], a[2], a[3], a[4])>> :
        a \in {ExtractInfo(TextA), ExtractInfo(TextB)} \X AppJobs \X BOOLEAN \X BOOLEAN}

MatcherMatch(resume_info, job_description, use_ai, up) ==
    (CHOOSE p \in MatchGraph : p[1] = <<resume_info, job_description, use_ai, up>>)[2]

\* if d: for a dict
Truthy(d) == DOMAIN d # {}

\* s[:n] + "..." if len(s) > n else s
Preview(s, n) == IF Len(s) > n THEN Take(s, n) \o <<".", ".", ".">> ELSE s

Error(s, status, detail) == [status |-> status, body |-> [detail |-> detail], sys |-> s]

\* upload_resume (app.py:61-134) once uuid4 has produced resume_id
UploadResume(s, file, resume_id, t) ==
    IF ~EndsWith(Lower(file.filename), <<".", "p", "d", "f">>)
    THEN Error(s, 400, "Only PDF files are supported")
    ELSE IF file.content.size > MAX_FILE_SIZE
    THEN Error(s, 400, "File size exceeds 10MB limit")
    ELSE
      LET cache_key == <<"upload", PyHash(<<"bytes", file.content.bytes>>)>>
          \* lines 116-119: store the new record, cache it, return it
          Stored(o, result) ==
              [status |-> 200, body |-> result,
               sys |-> CacheSet([o.sys EXCEPT !.resume_storage = DictSet(@, resume_id, o.ref)],
                                cache_key, o.ref, UPLOAD_TTL, t).sys]
          \* lines 106-114: result = {...}
          Built(s0, result) == Stored(NewObj(s0, result), result)
          \* lines 100-103: parse, then extract
          Parsed(s0, parsed) ==
              IF parsed.raised
              THEN Error(s0, 500, "Upload failed: PDF parsing failed")
              ELSE Built(s0, [resume_id      |-> resume_id,
                              filename       |-> file.filename,
                              file_size      |-> file.content.size,
                              status         |-> "success",
                              extracted_info |-> ExtractInfo(parsed.text),
                              text_preview   |-> Preview(parsed.text, 500),
                              from_cache     |-> FALSE])
          \* lines 94-97: the cached dict itself is marked and stored
          Marked(s0, cached_result, marked) ==
              [status |-> 200, body |-> marked,
               sys |-> [s0 EXCEPT !.heap[cached_result] = marked,
                                  !.resume_storage = DictSet(@, resume_id, cached_result)]]
          \* line 93: if cached_result
          Got(s0, cached_result) ==
              IF cached_result # NoRef /\ Truthy(s0.heap[cached_result])
              THEN Marked(s0, cached_result,
                          [s0.heap[cached_result] EXCEPT !.resume_id = resume_id,
                                                         !.from_cache = TRUE])
              ELSE Parsed(s0, PdfParse(file.content))
          Looked(got) == Got(got.sys, got.ret)
      IN Looked(CacheGet(s, cache_key, t))

\* analyze_resume (app.py:153-195)
AnalyzeResume(s, resume_id, job_description, use_ai_matching, t, up) ==
    IF resume_id \notin DOMAIN s.resume_storage
    THEN Error(s, 404, "Resume not found")
    ELSE
      LET resume_data == s.heap[s.resume_storage[resume_id]]
          cache_key == <<"analyze", resume_id, PyHash(<<"str", job_description>>), use_ai_matching>>
          \* lines 185-187: cache the new result, return it
          Stored(o, result) ==
              [status |-> 200, body |-> result,
               sys |-> CacheSet(o.sys, cache_key, o.ref, ANALYZE_TTL, t).sys]
          \* lines 178-183: result = {...}
          Built(s0, result) == Stored(NewObj(s0, result), result)
          \* lines 167-169: the cached dict itself is marked
          Marked(s0, cached_result, marked) ==
              [status |-> 200, body |-> marked,
               sys |-> [s0 EXCEPT !.heap[cached_result] = marked]]
          \* line 166: if cached_result
          Got(s0, cached_result) ==
              IF cached_result # NoRef /\ Truthy(s0.heap[cached_result])
              THEN Marked(s0, cached_result, [s0.heap[cached_result] EXCEPT !.from_cache = TRUE])
              ELSE Built(s0, [resume_id               |-> resume_id,
                              job_description_preview |-> Preview(job_description, 200),
                              match_result            |-> MatcherMatch(resume_data.extracted_info,
                                                                       job_description,
                                                                       use_ai_matching, up),
                              from_cache              |-> FALSE])
          Looked(got) == Got(got.sys, got.ret)
      IN Looked(CacheGet(s, cache_key, t))

\* get_resume answering for every identifier
GetResumeAlways(s, resume_id) ==
    [status |-> 200,
     body |-> [status |-> "success", resume_id |-> resume_id, data |-> EmptyDict],
     sys |-> s]

\* get_resume (app.py:208-218)
GetResume(s, resume_id) ==
    IF resume_id \in DOMAIN s.resume_storage
    THEN [status |-> 200,
          body |-> [status |-> "success", resume_id |-> resume_id,
                    data |-> s.heap[s.resume_storage[resume_id]]],
          sys |-> s]
    ELSE Error(s, 404, "Resume not found")

\* The analyze requests of the model: one request, the three that differ from it
\* in one component, and one for an identifier no upload returns
AnalyzeRequests ==
    {<<1, JavaJob, FALSE>>, <<1, CloudJob, FALSE>>, <<1, JavaJob, TRUE>>,
     <<2, JavaJob, FALSE>>, <<MaxUploads + 1, JavaJob, FALSE>>}

Init ==
    /\ sys = [b \in Backends |-> InitSys(b)]
    /\ now = 0
    /\ resp = [b \in Backends |-> [op |-> "init", at |-> 0, req |-> None, status |-> 0,
                                   body |-> None, prior |-> None]]
    /\ pyhash \in HashFunctions
    /\ uuids = 0
    /\ issued = [b \in Backends |-> EmptyDict]
    /\ computed = [b \in Backends |-> [r \in AnalyzeRequests |-> None]]
    /\ analyses = 0
    /\ threads = EmptyDict
    /\ calls = 0
    /\ wrote = {}
    /\ lastSet = [k \in CacheKeys |-> NeverSet]
    /\ margs = None
    /\ mret = None

\* POST /api/upload
Upload(file) ==
    /\ uuids < MaxUploads
    /\ LET reached == EndsWith(Lower(file.filename), <<".", "p", "d", "f">>) /\ file.content.size <= MAX_FILE_SIZE
           Answered(out) ==
               /\ sys' = [b \in Backends |-> Collect(out[b].sys)]
               /\ resp' = [b \in Backends |->
                              [op |-> "upload", at |-> now, req |-> file, status |-> out[b].status,
                               body |-> out[b].body, prior |-> None]]
               /\ issued' = [b \in Backends |->
                                IF out[b].status = 200 /\ out[b].body.resume_id \notin DOMAIN issued[b]
                                THEN DictSet(issued[b], out[b].body.resume_id,
                                             out[b].body.extracted_info)
                                ELSE issued[b]]
       IN /\ Answered([b \in Backends |-> UploadResume(sys[b], file, FreshId(uuids), now)])
          /\ uuids' = IF reached THEN uuids + 1 ELSE uuids
    /\ UNCHANGED <<now, pyhash, computed, analyses, appOnly>>

\* POST /api/analyze/{resume_id}
Analyze(resume_id, job_description, use_ai_matching) ==
    /\ analyses < MaxAnalyses
    /\ analyses' = analyses + 1
    /\ \E up \in BOOLEAN :
      LET r == <<resume_id, job_description, use_ai_matching>>
          Answered(out) ==
              /\ sys' = [b \in Backends |-> Collect(out[b].sys)]
              /\ resp' = [b \in Backends |->
                             [op |-> "analyze", at |-> now,
                              req |-> [resume_id |-> resume_id, job_description |-> job_description,
                                       use_ai_matching |-> use_ai_matching],
                              status |-> out[b].status, body |-> out[b].body,
                              prior |-> IF computed[b][r] # None /\ now < computed[b][r].expiry
                                        THEN computed[b][r].result ELSE None]]
              /\ computed' = [b \in Backends |->
                                 IF out[b].status = 200 /\ ~out[b].body.from_cache
                                 THEN [computed[b] EXCEPT ![r] =
                                          [result |-> out[b].body.match_result,
                                           expiry |-> now + ANALYZE_TTL]]
                                 ELSE computed[b]]
      IN Answered([b \in Backends |->
                      AnalyzeResume(sys[b], resume_id, job_description, use_ai_matching, now, up)])
    /\ UNCHANGED <<now, pyhash, uuids, issued, appOnly>>

\* GET /api/resume/{resume_id}
Retrieve(resume_id) ==
    LET Answered(out) ==
            /\ sys' = [b \in Backends |-> Collect(out[b].sys)]
            /\ resp' = [b \in Backends |->
                           [op |-> "retrieve", at |-> now, req |-> [resume_id |-> resume_id],
                            status |-> out[b].status, body |-> out[b].body, prior |-> None]]
    IN /\ Answered([b \in Backends |-> GetResume(sys[b], resume_id)])
       /\ UNCHANGED <<now, pyhash, uuids, issued, computed, analyses, appOnly>>

\* Wall-clock time passes between requests
Wait ==
    /\ now + TickStep <= MaxWaits * TickStep
    /\ now' = now + TickStep
    /\ UNCHANGED <<sys, resp, pyhash, uuids, issued, computed, analyses, appOnly>>

Next ==
    \/ \E file \in UploadFiles : Upload(file)
    \/ \E r \in AnalyzeRequests : Analyze(r[1], r[2], r[3])
    \/ \E id \in Ids : Retrieve(id)
    \/ Wait

Spec == Init /\ [][Next]_vars

\* resume_storage[id], as a caller reads it
StoredRecord(b, id) == sys[b].heap[sys[b].resume_storage[id]]

\* The keys the result cache holds
CachedKeys(s) == (DOMAIN s.memory_cache) \cup (DOMAIN s.cache_expiry) \cup (DOMAIN s.redis)

NotFound == [detail |-> "Resume not found"]

\* C3: the profile stored for an identifier is the one its upload returned, at
\* all times, and a retrieval of the identifier returns that profile, whatever
\* uploads (cache-served ones included) and analyses happened since.
ProfileNeverChanges ==
    \A b \in Backends :
        /\ \A id \in DOMAIN issued[b] :
               /\ id \in DOMAIN sys[b].resume_storage
               /\ StoredRecord(b, id).extracted_info = issued[b][id]
        /\ (resp[b].op = "retrieve" /\ resp[b].status = 200)
               => resp[b].body.data.extracted_info = issued[b][resp[b].req.resume_id]

\* C3 witness: the first identifier is retrieved after a byte-identical document
\* was uploaded again and served from the cache, and after an analysis
RetrievedAfterCachedUpload ==
    /\ resp["memory"].op = "retrieve"
    /\ resp["memory"].status = 200
    /\ resp["memory"].req.resume_id = 1
    /\ 2 \in DOMAIN sys["memory"].resume_storage
    /\ StoredRecord("memory", 2).from_cache
    /\ analyses > 0
    /\ resp["memory"].body.data.extracted_info = issued["memory"][1]
    /\ resp["redis"].body.data.extracted_info = issued["redis"][1]

\* C4, the store: an identifier is in the store iff an upload returned it
StoreHoldsIssuedIds ==
    \A b \in Backends : DOMAIN sys[b].resume_storage = DOMAIN issued[b]

\* C4, the step: an analyze or retrieve request for an identifier that is not in
\* the store answers 404 "Resume not found" and changes neither the store nor
\* the cache
UnknownIdStep ==
    \A b \in Backends :
        (/\ resp'[b].op \in {"analyze", "retrieve"}
         /\ resp'[b].req.resume_id \notin DOMAIN sys[b].resume_storage)
            => /\ resp'[b].status = 404
               /\ resp'[b].body = NotFound
               /\ sys'[b] = sys[b]

\* C4: a request for an unknown identifier fails with not-found and leaves the
\* store and the result cache unchanged; the store holds exactly the identifiers
\* that successful uploads returned.
UnknownIdIsNotFound == []StoreHoldsIssuedIds /\ [][UnknownIdStep]_vars

\* C4 witness: not-found answers while the store and the cache hold entries
NotFoundWithEntries ==
    \A b \in Backends :
        /\ resp[b].op = "analyze"
        /\ resp[b].status = 404
        /\ resp[b].req.resume_id \notin DOMAIN sys[b].resume_storage
        /\ DOMAIN sys[b].resume_storage # {}
        /\ CachedKeys(sys[b]) # {}

\* the name's last four characters are ".pdf" in some mix of cases
IsPdfName(filename) ==
    /\ Len(filename) >= 4
    /\ Lower(SubSeq(filename, Len(filename) - 3, Len(filename))) = <<".", "p", "d", "f">>

\* C5, the step taken by an upload
UploadStep ==
    \A b \in Backends :
        (now' = now /\ resp'[b].op = "upload") =>
            LET file == resp'[b].req
                before == sys[b].resume_storage
                after == sys'[b].resume_storage
            IN /\ resp'[b].status \in {200, 400, 500}
               /\ (~IsPdfName(file.filename) \/ file.content.size > MAX_FILE_SIZE)
                      => resp'[b].status = 400
               /\ (~file.content.readable /\ resp'[b].status = 200) => resp'[b].body.from_cache
               /\ resp'[b].status # 200 =>
                      /\ DOMAIN resp'[b].body = {"detail"}
                      /\ after = before
                      /\ CachedKeys(sys'[b]) \subseteq CachedKeys(sys[b])
               /\ resp'[b].status = 200 =>
                      LET id == resp'[b].body.resume_id
                      IN /\ id \notin DOMAIN before
                         /\ id \notin DOMAIN issued[b]
                         /\ DOMAIN after = (DOMAIN before) \cup {id}
                         /\ \A i \in DOMAIN before : after[i] = before[i]

\* C5: a rejected upload (name not ending in .pdf, more than 10 MB, text
\* extraction failing) returns a structured error and adds nothing to the store
\* or the cache; a successful one adds exactly one store entry, under an
\* identifier never used before.
RejectedUploadAddsNothing == [][UploadStep]_vars

\* C5 witness: an unreadable document is refused after a successful upload
ExtractionFailureAfterUpload ==
    \A b \in Backends :
        /\ resp[b].op = "upload"
        /\ resp[b].status = 500
        /\ ~resp[b].req.content.readable
        /\ Cardinality(DOMAIN sys[b].resume_storage) = 1

AnalyzeAnswered(b) == resp[b].op = "analyze" /\ resp[b].status = 200

\* C6 as claimed: match results are cached by (identifier, job description,
\* flag): an analyze request repeated within 1800 s of the computation of its
\* result returns that result with from_cache true, and a response with
\* from_cache true always carries the result computed for the very same
\* identifier, job description and flag.
AnalysisServedFromOwnEntry ==
    \A b \in Backends :
        AnalyzeAnswered(b) =>
            /\ resp[b].prior # None =>
                   /\ resp[b].body.from_cache
                   /\ resp[b].body.match_result = resp[b].prior
            /\ resp[b].body.from_cache =>
                   /\ resp[b].prior # None
                   /\ resp[b].body.match_result = resp[b].prior
                   /\ resp[b].body.resume_id = resp[b].req.resume_id
                   /\ resp[b].body.job_description_preview =
                          Preview(resp[b].req.job_description, 200)

\* C6, what the code does keep: the same, in runs whose hash() tells the job
\* descriptions apart
OwnEntryWhenHashesDiffer ==
    (\A x, y \in SeqToSet(HashedStrs) : PyHash(x) = PyHash(y) => x = y)
        => AnalysisServedFromOwnEntry

\* C6 witness: a repeated request answered from the cache
RepeatedAnalysisServedFromCache ==
    \A b \in Backends :
        /\ AnalyzeAnswered(b)
        /\ resp[b].prior # None
        /\ resp[b].body.from_cache
        /\ resp[b].body.match_result = resp[b].prior

\* C6 witness of the failure: a request answered with the result that was
\* computed for another job description
ServedFromAnotherRequestsEntry ==
    \E b \in Backends :
        /\ AnalyzeAnswered(b)
        /\ resp[b].body.from_cache
        /\ resp[b].prior = None
        /\ resp[b].body.job_description_preview # Preview(resp[b].req.job_description, 200)

\* What callers can observe of resume_storage
ObservedStore(b) == [id \in DOMAIN sys[b].resume_storage |-> StoredRecord(b, id)]

\* C8 as claimed: whichever backend is active, the responses and the contents
\* of the store are the same after every sequence of requests.
BackendsInterchangeable ==
    /\ resp["memory"].status = resp["redis"].status
    /\ resp["memory"].body = resp["redis"].body
    /\ ObservedStore("memory") = ObservedStore("redis")

\* C8, the part that does hold: status codes, identifiers and profiles agree
BackendsAgreeOnProfiles ==
    /\ resp["memory"].status = resp["redis"].status
    /\ DOMAIN sys["memory"].resume_storage = DOMAIN sys["redis"].resume_storage
    /\ \A id \in DOMAIN sys["memory"].resume_storage :
           StoredRecord("memory", id).extracted_info = StoredRecord("redis", id).extracted_info

\* C8 witness of the failure: the first identifier is retrieved after a second
\* upload of the same bytes; the in-process backend answers with the second
\* upload's identifier and from_cache true, the external one with the first
\* upload's record as it was returned
RetrievalsDiverge ==
    /\ resp["memory"].op = "retrieve"
    /\ resp["memory"].status = 200
    /\ resp["redis"].status = 200
    /\ resp["memory"].req.resume_id = 1
    /\ resp["memory"].body.data.resume_id = 2
    /\ resp["memory"].body.data.from_cache
    /\ resp["redis"].body.data.resume_id = 1
    /\ ~resp["redis"].body.data.from_cache

\* every record of backend b's store carries the identifier it is stored under,
\* and so does every record a retrieval returned
LabelsMatch(b) ==
    /\ \A id \in DOMAIN sys[b].resume_storage : StoredRecord(b, id).resume_id = id
    /\ (resp[b].op = "retrieve" /\ resp[b].status = 200)
           => resp[b].body.data.resume_id = resp[b].req.resume_id

\* C19 as claimed: after any sequence of uploads (repeated uploads of the same
\* bytes within the cache TTL included) and analyze requests, every identifier
\* of the store maps to a record whose resume_id is that identifier, so that a
\* retrieval never returns a record labelled with another upload's identifier.
StoredRecordCarriesItsOwnId == \A b \in Backends : LabelsMatch(b)

\* C19, the part that holds: with the external cache every record keeps the
\* identifier it was stored under
ExternalCacheKeepsLabels == LabelsMatch("redis")

\* C19 witness of the failure: after a second upload of the same bytes the
\* in-process backend's record 1 is labelled 2, while the store still lists both
\* identifiers
FirstRecordRelabelled ==
    /\ DOMAIN sys["memory"].resume_storage = {1, 2}
    /\ StoredRecord("memory", 1).resume_id = 2
    /\ StoredRecord("memory", 2).resume_id = 2
    /\ StoredRecord("redis", 1).resume_id = 1
    /\ resp["memory"].op = "upload"

(***************************************************************************)
(* The in-process cache called from several threads.  handler (app.py:221) *)
(* is a plain function that runs the application on an event loop of its   *)
(* own, so a platform that invokes it from several threads of one process   *)
(* runs get and set concurrently; CacheManager takes no lock, and the       *)
(* interpreter may switch threads between any two statements.               *)
(***************************************************************************)
MaxThreads == 2
MaxCalls == 3

Threads == 1..MaxThreads
ConcKey == "k1"

Idle == [pc |-> "idle", op |-> "none", value |-> NoRef, ttl |-> 0, expiry |-> 0, ret |-> None]

MemorySys == sys["memory"]

\* One thread takes a step: its own record and the process state change
ThreadStep(t, th, s) ==
    /\ threads' = [threads EXCEPT ![t] = th]
    /\ sys' = [sys EXCEPT !["memory"] = s]

\* return from get or set
Return(th, ret) == [th EXCEPT !.pc = "idle", !.ret = ret]

InitConc ==
    /\ sys = [b \in Backends |-> InitSys("memory")]
    /\ now = 0
    /\ resp = [b \in Backends |-> [op |-> "init", key |-> "", at |-> 0, ret |-> None]]
    /\ lastSet = [k \in CacheKeys |-> NeverSet]
    /\ margs = None
    /\ mret = None
    /\ pyhash = EmptyDict
    /\ uuids = 0
    /\ issued = EmptyDict
    /\ computed = EmptyDict
    /\ analyses = 0
    /\ threads = [t \in Threads |-> Idle]
    /\ calls = 0
    /\ wrote = {}

\* a thread calls set(key, value, ttl); redis_client is None (cache.py:75)
BeginSet(t, v, ttl) ==
    /\ threads[t].pc = "idle"
    /\ calls < MaxCalls
    /\ calls' = calls + 1
    /\ wrote' = wrote \cup {v}
    /\ LET o == NewObj(MemorySys, v)
       IN ThreadStep(t, [Idle EXCEPT !.pc = "set_value", !.op = "set", !.value = o.ref, !.ttl = ttl], o.sys)
    /\ UNCHANGED <<now, resp, lastSet, margs, mret, pyhash, uuids, issued, computed, analyses>>

\* cache.py:87  self.memory_cache[key] = value
SetStoreValue(t) ==
    /\ threads[t].pc = "set_value"
    /\ ThreadStep(t, [threads[t] EXCEPT !.pc = "set_expiry"],
                  [MemorySys EXCEPT !.memory_cache = DictSet(@, ConcKey, threads[t].value)])
    /\ UNCHANGED <<now, resp, lastSet, margs, mret, pyhash, uuids, issued, computed, analyses, calls, wrote>>

\* cache.py:88-90  self.cache_expiry[key] = time.time() + ttl; return True
SetStoreExpiry(t) ==
    /\ threads[t].pc = "set_expiry"
    /\ ThreadStep(t, [Return(threads[t], [value |-> TRUE]) EXCEPT !.value = NoRef],
                  [MemorySys EXCEPT !.cache_expiry = DictSet(@, ConcKey, now + threads[t].ttl)])
    /\ UNCHANGED <<now, resp, lastSet, margs, mret, pyhash, uuids, issued, computed, analyses, calls, wrote>>

\* a thread calls get(key); redis_client is None (cache.py:45)
BeginGet(t) ==
    /\ threads[t].pc = "idle"
    /\ calls < MaxCalls
    /\ calls' = calls + 1
    /\ ThreadStep(t, [Idle EXCEPT !.pc = "get_contains", !.op = "get"], MemorySys)
    /\ UNCHANGED <<now, resp, lastSet, margs, mret, pyhash, uuids, issued, computed, analyses, wrote>>

\* cache.py:52  if key in self.memory_cache, else cache.py:67-68 return None
GetContains(t) ==
    /\ threads[t].pc = "get_contains"
    /\ ThreadStep(t, IF ConcKey \in DOMAIN MemorySys.memory_cache
                     THEN [threads[t] EXCEPT !.pc = "get_expiry"]
                     ELSE Return(threads[t], None),
                  MemorySys)
    /\ UNCHANGED <<now, resp, lastSet, margs, mret, pyhash, uuids, issued, computed, analyses, calls, wrote>>

\* cache.py:53  expiry = self.cache_expiry.get(key, 0)
GetReadExpiry(t) ==
    /\ threads[t].pc = "get_expiry"
    /\ ThreadStep(t, [threads[t] EXCEPT !.pc = "get_compare",
                                        !.expiry = DictGet(MemorySys.cache_expiry, ConcKey, 0)],
                  MemorySys)
    /\ UNCHANGED <<now, resp, lastSet, margs, mret, pyhash, uuids, issued, computed, analyses, calls, wrote>>

\* cache.py:54  if expiry > time.time()
GetCompare(t) ==
    /\ threads[t].pc = "get_compare"
    /\ ThreadStep(t, [threads[t] EXCEPT !.pc = IF threads[t].expiry > now
                                               THEN "get_return" ELSE "get_del_value"],
                  MemorySys)
    /\ UNCHANGED <<now, resp, lastSet, margs, mret, pyhash, uuids, issued, computed, analyses, calls, wrote>>

\* cache.py:56  return self.memory_cache[key]; a KeyError ends in the handler
\* of cache.py:64-68, which returns None
GetReturn(t) ==
    /\ threads[t].pc = "get_return"
    /\ ThreadStep(t, IF ConcKey \in DOMAIN MemorySys.memory_cache
                     THEN Return(threads[t], Deref(MemorySys, MemorySys.memory_cache[ConcKey]))
                     ELSE Return(threads[t], None),
                  MemorySys)
    /\ UNCHANGED <<now, resp, lastSet, margs, mret, pyhash, uuids, issued, computed, analyses, calls, wrote>>

\* cache.py:59  del self.memory_cache[key]; a KeyError ends the call with None
GetDelValue(t) ==
    /\ threads[t].pc = "get_del_value"
    /\ IF ConcKey \in DOMAIN MemorySys.memory_cache
       THEN ThreadStep(t, [threads[t] EXCEPT !.pc = "get_has_expiry"],
                       [MemorySys EXCEPT !.memory_cache = DictDel(@, ConcKey)])
       ELSE ThreadStep(t, Return(threads[t], None), MemorySys)
    /\ UNCHANGED <<now, resp, lastSet, margs, mret, pyhash, uuids, issued, computed, analyses, calls, wrote>>

\* cache.py:60  if key in self.cache_expiry
GetHasExpiry(t) ==
    /\ threads[t].pc = "get_has_expiry"
    /\ ThreadStep(t, IF ConcKey \in DOMAIN MemorySys.cache_expiry
                     THEN [threads[t] EXCEPT !.pc = "get_del_expiry"]
                     ELSE Return(threads[t], None),
                  MemorySys)
    /\ UNCHANGED <<now, resp, lastSet, margs, mret, pyhash, uuids, issued, computed, analyses, calls, wrote>>

\* cache.py:61  del self.cache_expiry[key], then cache.py:67-68 return None
GetDelExpiry(t) ==
    /\ threads[t].pc = "get_del_expiry"
    /\ ThreadStep(t, Return(threads[t], None),
                  [MemorySys EXCEPT !.cache_expiry = DictDel(@, ConcKey)])
    /\ UNCHANGED <<now, resp, lastSet, margs, mret, pyhash, uuids, issued, computed, analyses, calls, wrote>>

\* Wall-clock time passes while the threads run
Elapse ==
    /\ now + TickStep <= MaxTime
    /\ now' = now + TickStep
    /\ UNCHANGED <<sys, resp, lastSet, cacheOnly>>

NextConc ==
    \/ \E t \in Threads, v \in CacheVals : BeginSet(t, v, TickStep)
    \/ \E t \in Threads : SetStoreValue(t)
    \/ \E t \in Threads : SetStoreExpiry(t)
    \/ \E t \in Threads : BeginGet(t)
    \/ \E t \in Threads : GetContains(t)
    \/ \E t \in Threads : GetReadExpiry(t)
    \/ \E t \in Threads : GetCompare(t)
    \/ \E t \in Threads : GetReturn(t)
    \/ \E t \in Threads : GetDelValue(t)
    \/ \E t \in Threads : GetHasExpiry(t)
    \/ \E t \in Threads : GetDelExpiry(t)
    \/ Elapse

SpecConc == InitConc /\ [][NextConc]_vars

AllReturned == \A t \in Threads : threads[t].pc = "idle"

\* C7 as claimed: under any interleaving of concurrent get and set calls on one
\* key of the in-process cache, once all calls have returned the key has both a
\* value and an expiry timestamp or neither, and any value a get returned is
\* one that some set wrote.
ConcurrentCallsKeepEntryWhole ==
    AllReturned =>
        /\ (ConcKey \in DOMAIN MemorySys.memory_cache) <=> (ConcKey \in DOMAIN MemorySys.cache_expiry)
        /\ \A t \in Threads :
               threads[t].op = "get" => (threads[t].ret = None \/ threads[t].ret \in wrote)

\* C7, the part that does hold: a get never returns a value that no set wrote
GetReturnsWrittenValue ==
    \A t \in Threads :
        (threads[t].op = "get" /\ threads[t].pc = "idle")
            => (threads[t].ret = None \/ threads[t].ret \in wrote)

\* C7 witness of the failure: all calls have returned and the key has an expiry
\* timestamp but no value
ExpiryWithoutValue ==
    /\ AllReturned
    /\ ConcKey \in DOMAIN MemorySys.cache_expiry
    /\ ConcKey \notin DOMAIN MemorySys.memory_cache
====
